---- MODULE Spec2Model ----
(***************************************************************************)
(* Model of get_contracts.py: the cursor-paginated contract fetcher        *)
(* (fetch_all_contracts), the batched plan resolver (fetch_plans_by_ids)   *)
(* and the two aggregation passes (transform_summary, transform_detailed). *)
(*                                                                         *)
(* Python's None is the record None below; an optional value x is Some(x). *)
(* Amounts are kept in hundredths (1500.00 is 150000).                     *)
(***************************************************************************)
EXTENDS Integers, Sequences, FiniteSets, TLC

\* ---------------------------------------------------------------- bounds
\* contract ids the source may hold are 1..MaxId
MaxId == 4
\* page sizes (`limit`) tried are 1..MaxLimit
MaxLimit == 2
\* page caps (`max_pages`) tried are None, 0..MaxCap
MaxCap == 2
\* at most MaxFailures retried (transient) failures in one fetch
MaxFailures == 2

\* plan ids are 1..MaxPlanId
MaxPlanId == 3
\* batch sizes tried are 1..MaxBatch (the code's batch_size is 100)
MaxBatch == 3
\* plan page sizes tried are 1..MaxPlanLimit (the code's limit is 200)
MaxPlanLimit == 2
\* at most MaxPlanFailures failed requests in one plan resolution
MaxPlanFailures == 1

\* at most MaxContracts contracts are handed to a transform
MaxContracts == 2
\* at most MaxUnits ContractUnits in all the contracts handed to a transform
MaxUnits == 2

\* ---------------------------------------------------------------- values
None == [has |-> FALSE, v |-> 0]
Some(x) == [has |-> TRUE, v |-> x]

\* Python truthiness of an optional integer: None and 0 are falsy
Truthy(x) == x.has /\ x.v # 0

Last(s) == s[Len(s)]

Min(a, b) == IF a < b THEN a ELSE b

RECURSIVE SortedSeq(_)
\* the elements of a finite set of integers, ascending
SortedSeq(S) ==
  IF S = {} THEN << >>
  ELSE LET m == CHOOSE x \in S : \A y \in S : x <= y
       IN << m >> \o SortedSeq(S \ {m})

RECURSIVE Flatten(_)
Flatten(ss) == IF ss = << >> THEN << >> ELSE ss[1] \o Flatten(Tail(ss))

VARIABLES
  \* ---- fetch_all_contracts
  source,         \* the Contract records the remote source holds, ordered by id
  limit,          \* parameter `limit`
  max_pages,      \* parameter `max_pages` (None or an integer)
  all_contracts,  \* local `all_contracts`
  after,          \* local `after` (the cursor)
  page,           \* local `page`
  pc,             \* position in fetch_all_contracts
  requests,       \* log of the requests.post calls: variables sent and locals then
  outcomes,       \* log of what each answered request came back as
  accepted,       \* log of the non-empty pages appended to all_contracts
  failures,       \* number of retried failures so far
  exit_reason,    \* which `break` ended the loop
  returned,       \* the value handed to the caller by `return all_contracts`
  \* ---- fetch_plans_by_ids
  plan_source,    \* the Plans records the remote source holds, ordered by id
  plan_ids,       \* parameter `plan_ids`
  batch_size,     \* local `batch_size`
  plan_limit,     \* the "limit" sent with every Plans request
  batch_idx,      \* loop variable `batch_idx`
  batch,          \* local `batch`
  plan_after,     \* local `after`
  plan_page,      \* local `page`
  all_plans,      \* local `all_plans`
  plan_pc,        \* position in fetch_plans_by_ids
  plan_requests,  \* log of the requests.post calls
  plan_outcomes,  \* log of what each answered request came back as
  plan_failures,  \* number of failed requests so far
  plans_result,   \* the dict handed to the caller
  \* ---- transform_summary / transform_detailed
  contracts,      \* parameter `contracts`
  plans_dict,     \* parameter `plans_dict`
  mode,           \* which transform runs: "summary" or "detailed"
  done_count,     \* how many contracts the loop has gone through
  contract_num,   \* transform_detailed's local `contract_num`
  rows,           \* local `rows`
  stats,          \* local `stats`
  plan_sum,       \* local `plan_sum` (summary) / `plan_amount` (detailed)
  contract_sum,   \* local `contract_sum` (summary) / `unit_sum` (detailed)
  savings,        \* local `savings`
  t_pc,           \* position in the transform
  \* ---- main (its locals contracts, plans_dict and mode are the ones above,
  \*      its df is rows)
  m_pc,           \* position in main
  all_plan_ids,   \* local `all_plan_ids`
  writes,         \* log of the files written
  steps,          \* log of the pipeline steps carried out
  exit_code,      \* the status the process ended with
  interrupted     \* where a KeyboardInterrupt struck, and the logs' sizes then

fetchVars == << source, limit, max_pages, all_contracts, after, page, pc,
                requests, outcomes, accepted, failures, exit_reason, returned >>

planVars == << plan_source, plan_ids, batch_size, plan_limit, batch_idx, batch,
               plan_after, plan_page, all_plans, plan_pc, plan_requests,
               plan_outcomes, plan_failures, plans_result >>

transVars == << contracts, plans_dict, mode, done_count, contract_num, rows,
                stats, plan_sum, contract_sum, savings, t_pc >>

mainVars == << m_pc, all_plan_ids, writes, steps, exit_code, interrupted >>

vars == << fetchVars, planVars, transVars, mainVars >>

\* what fetch_all_contracts leaves alone
nonFetchVars == << planVars, transVars, mainVars >>

\* what fetch_plans_by_ids leaves alone
nonPlanVars == << fetchVars, transVars, mainVars >>

\* what the transforms leave alone
nonTransVars == << fetchVars, planVars, mainVars >>

\* ------------------------------------------------- the remote Contract query
\* Contract(filter, limit: $limit, after: $after): the first `lim` records
\* whose id lies beyond the cursor, in id order
ContractPage(src, aft, lim) ==
  LET rest == SelectSeq(src, LAMBDA r : (~aft.has) \/ r.id > aft.v)
  IN SubSeq(rest, 1, Min(lim, Len(rest)))

Transient == {"timeout", "connection_error", "rate_limit"}

\* fetch_all_contracts not running
FetchIdle ==
  /\ source = << >> /\ limit = 1 /\ max_pages = None
  /\ all_contracts = << >> /\ after = None /\ page = 1 /\ pc = "idle"
  /\ requests = << >> /\ outcomes = << >> /\ accepted = << >>
  /\ failures = 0 /\ exit_reason = "none" /\ returned = << >>

\* fetch_plans_by_ids not running
PlansIdle ==
  /\ plan_source = << >> /\ plan_ids = << >> /\ batch_size = 1
  /\ plan_limit = 1 /\ batch_idx = 0 /\ batch = << >>
  /\ plan_after = None /\ plan_page = 1 /\ all_plans = << >>
  /\ plan_pc = "idle" /\ plan_requests = << >> /\ plan_outcomes = << >>
  /\ plan_failures = 0 /\ plans_result = << >>

\* no transform running
TransIdle ==
  /\ contracts = << >> /\ plans_dict = << >> /\ mode = "none"
  /\ done_count = 0 /\ contract_num = 1 /\ rows = << >>
  /\ stats = [with_plan |-> 0, without_plan |-> 0, total_contracts |-> 0,
              total_positions |-> 0, contracts_without_units |-> 0]
  /\ plan_sum = 0 /\ contract_sum = 0 /\ savings = None
  /\ t_pc = "idle"

NotInterrupted == [at |-> "none", writes |-> 0, steps |-> 0]

\* main not running
MainIdle ==
  /\ m_pc = "idle" /\ all_plan_ids = {} /\ writes = << >> /\ steps = << >>
  /\ exit_code = None /\ interrupted = NotInterrupted

\* ------------------------------------------------------ fetch_all_contracts
InitFetch ==
  /\ \E S \in SUBSET (1..MaxId) :
       source = [i \in 1..Cardinality(S) |-> [id |-> SortedSeq(S)[i]]]
  /\ limit \in 1..MaxLimit
  /\ max_pages \in {None} \cup {Some(m) : m \in 0..MaxCap}
  /\ all_contracts = << >>
  /\ after = None
  /\ page = 1
  /\ pc = "loop"
  /\ requests = << >>
  /\ outcomes = << >>
  /\ accepted = << >>
  /\ failures = 0
  /\ exit_reason = "none"
  /\ returned = << >>

\* mutant: the cap test is off by one page
CapExceeded_OffByOne == Truthy(max_pages) /\ page > max_pages.v + 1

\* `if max_pages and page > max_pages`
CapExceeded == Truthy(max_pages) /\ page > max_pages.v

\* the page-cap `break`
CapReached ==
  /\ pc = "loop"
  /\ CapExceeded
  /\ pc' = "return"
  /\ exit_reason' = "cap"
  /\ UNCHANGED << source, limit, max_pages, all_contracts, after, page,
                  requests, outcomes, accepted, failures, returned >>
  /\ UNCHANGED nonFetchVars

\* requests.post(URL, json={query, variables}) with the current cursor
SendRequest ==
  /\ pc = "loop"
  /\ ~CapExceeded
  /\ requests' = Append(requests,
                   [after |-> after, limit |-> limit, page |-> page,
                    held |-> Len(all_contracts), npages |-> Len(accepted)])
  /\ pc' = "await"
  /\ UNCHANGED << source, limit, max_pages, all_contracts, after, page,
                  outcomes, accepted, failures, exit_reason, returned >>
  /\ UNCHANGED nonFetchVars

\* a failure that is retried: sleep, then `continue`
Retry(kind) ==
  /\ pc = "await"
  /\ failures < MaxFailures
  /\ failures' = failures + 1
  /\ outcomes' = Append(outcomes, kind)
  /\ pc' = "loop"
  /\ UNCHANGED << source, limit, max_pages, all_contracts, after, page,
                  requests, accepted, exit_reason, returned >>
  /\ UNCHANGED nonFetchVars

\* a failure that ends the loop: `break`
Abort(kind) ==
  /\ pc = "await"
  /\ outcomes' = Append(outcomes, kind)
  /\ exit_reason' = kind
  /\ pc' = "return"
  /\ UNCHANGED << source, limit, max_pages, all_contracts, after, page,
                  requests, accepted, failures, returned >>
  /\ UNCHANGED nonFetchVars

\* status 429
RespRateLimit == Retry("rate_limit")

\* requests.exceptions.Timeout
RespTimeout == Retry("timeout")

\* mutant: a connection failure ends the loop
RespConnectionError_Break == Abort("connection_error")

\* requests.exceptions.ConnectionError
RespConnectionError == Retry("connection_error")

\* status other than 200 and 429
RespHttpError == Abort("http_error")

\* mutant: an 'errors' payload is retried
RespGraphQLErrors_Retry == Retry("graphql_errors")

\* 200 with an 'errors' member
RespGraphQLErrors == Abort("graphql_errors")

\* any other requests.exceptions.RequestException
RespRequestException == Abort("request_exception")

\* any other Exception raised before the page is appended (a body that is not
\* JSON, a null 'data' member)
RespUnexpected == Abort("unexpected")

\* mutant: a page shorter than `limit` is taken as the last one
RespSuccess_ShortCircuit ==
  /\ pc = "await"
  /\ LET page_contracts == ContractPage(source, after, limit)
     IN IF page_contracts = << >>
        THEN /\ outcomes' = Append(outcomes, "empty")
             /\ exit_reason' = "empty"
             /\ pc' = "return"
             /\ UNCHANGED << all_contracts, after, page, accepted >>
        ELSE /\ outcomes' = Append(outcomes, "page")
             /\ all_contracts' = all_contracts \o page_contracts
             /\ after' = Some(Last(page_contracts).id)
             /\ page' = page + 1
             /\ accepted' = Append(accepted, page_contracts)
             /\ IF Len(page_contracts) < limit
                THEN pc' = "return" /\ exit_reason' = "empty"
                ELSE pc' = "loop" /\ UNCHANGED exit_reason
  /\ UNCHANGED << source, limit, max_pages, requests, failures, returned >>
  /\ UNCHANGED nonFetchVars

\* mutant: the cursor is taken from the first record of the page
RespSuccess_FirstId ==
  /\ pc = "await"
  /\ LET page_contracts == ContractPage(source, after, limit)
     IN IF page_contracts = << >>
        THEN /\ outcomes' = Append(outcomes, "empty")
             /\ exit_reason' = "empty"
             /\ pc' = "return"
             /\ UNCHANGED << all_contracts, after, page, accepted >>
        ELSE /\ outcomes' = Append(outcomes, "page")
             /\ all_contracts' = all_contracts \o page_contracts
             /\ after' = Some(page_contracts[1].id)
             /\ page' = page + 1
             /\ accepted' = Append(accepted, page_contracts)
             /\ pc' = "loop"
             /\ UNCHANGED exit_reason
  /\ UNCHANGED << source, limit, max_pages, requests, failures, returned >>
  /\ UNCHANGED nonFetchVars

\* 200, no errors: the page the source holds beyond the cursor
RespSuccess ==
  /\ pc = "await"
  /\ LET page_contracts == ContractPage(source, after, limit)
     IN IF page_contracts = << >>
        THEN /\ outcomes' = Append(outcomes, "empty")
             /\ exit_reason' = "empty"
             /\ pc' = "return"
             /\ UNCHANGED << all_contracts, after, page, accepted >>
        ELSE /\ outcomes' = Append(outcomes, "page")
             /\ all_contracts' = all_contracts \o page_contracts
             /\ after' = Some(Last(page_contracts).id)
             /\ page' = page + 1
             /\ accepted' = Append(accepted, page_contracts)
             /\ pc' = "loop"
             /\ UNCHANGED exit_reason
  /\ UNCHANGED << source, limit, max_pages, requests, failures, returned >>
  /\ UNCHANGED nonFetchVars

\* what `return all_contracts` hands to the caller after a loop exit of kind
\* `reason`: the list alone, whatever ended the loop
ReturnValue(acc, reason) == acc

\* `return all_contracts`
Return ==
  /\ pc = "return"
  /\ returned' = ReturnValue(all_contracts, exit_reason)
  /\ pc' = "done"
  /\ UNCHANGED << source, limit, max_pages, all_contracts, after, page,
                  requests, outcomes, accepted, failures, exit_reason >>
  /\ UNCHANGED nonFetchVars

NextFetch ==
  \/ CapReached
  \/ SendRequest
  \/ RespRateLimit
  \/ RespTimeout
  \/ RespConnectionError
  \/ RespHttpError
  \/ RespGraphQLErrors
  \/ RespRequestException
  \/ RespUnexpected
  \/ RespSuccess
  \/ Return

Init == InitFetch /\ PlansIdle /\ TransIdle /\ MainIdle

Next == NextFetch

Spec == Init /\ [][Next]_vars

\* ------------------------------------------------------- fetch_plans_by_ids
\* Plans(filter: {id: $ids}, limit: $limit, after: $after): the first `lim`
\* plans among `ids` whose id lies beyond the cursor, in id order
PlanPage(src, ids, aft, lim) ==
  LET rest == SelectSeq(src, LAMBDA r :
                  /\ \E j \in 1..Len(ids) : ids[j] = r.id
                  /\ (~aft.has) \/ r.id > aft.v)
  IN SubSeq(rest, 1, Min(lim, Len(rest)))

\* {plan['id']: plan for plan in all_plans}: a later entry replaces an earlier
DictOf(ps) ==
  [k \in {ps[i].id : i \in 1..Len(ps)} |->
     ps[CHOOSE i \in 1..Len(ps) :
          /\ ps[i].id = k
          /\ \A j \in 1..Len(ps) : ps[j].id = k => j <= i]]

\* all sequences of distinct elements of S
RECURSIVE Arrangements(_)
Arrangements(S) ==
  {<< >>} \cup UNION {{<< x >> \o t : t \in Arrangements(S \ {x})} : x \in S}

InitPlans ==
  /\ \E S \in SUBSET (1..MaxPlanId) :
       plan_source = [i \in 1..Cardinality(S) |-> [id |-> SortedSeq(S)[i]]]
  /\ plan_ids \in Arrangements(1..MaxPlanId) \ {<< >>}
  /\ batch_size \in 1..MaxBatch
  /\ plan_limit \in 1..MaxPlanLimit
  /\ batch_idx = 0
  /\ batch = << >>
  /\ plan_after = None
  /\ plan_page = 1
  /\ all_plans = << >>
  /\ plan_pc = "batch"
  /\ plan_requests = << >>
  /\ plan_outcomes = << >>
  /\ plan_failures = 0
  /\ plans_result = << >>

\* `for batch_idx in range(0, len(plan_ids), batch_size)`: one more batch
NextBatch ==
  /\ plan_pc = "batch"
  /\ batch_idx < Len(plan_ids)
  /\ batch' = SubSeq(plan_ids, batch_idx + 1,
                     Min(batch_idx + batch_size, Len(plan_ids)))
  /\ plan_after' = None
  /\ plan_page' = 1
  /\ plan_pc' = "loop"
  /\ UNCHANGED << plan_source, plan_ids, batch_size, plan_limit, batch_idx,
                  all_plans, plan_requests, plan_outcomes, plan_failures,
                  plans_result >>
  /\ UNCHANGED nonPlanVars

\* the range is exhausted
BatchesDone ==
  /\ plan_pc = "batch"
  /\ batch_idx >= Len(plan_ids)
  /\ plan_pc' = "return"
  /\ UNCHANGED << plan_source, plan_ids, batch_size, plan_limit, batch_idx,
                  batch, plan_after, plan_page, all_plans, plan_requests,
                  plan_outcomes, plan_failures, plans_result >>
  /\ UNCHANGED nonPlanVars

\* requests.post(URL, json={query_text, variables})
PlanSendRequest ==
  /\ plan_pc = "loop"
  /\ plan_requests' = Append(plan_requests,
        [ids |-> batch, limit |-> plan_limit, after |-> plan_after,
         batch_idx |-> batch_idx, page |-> plan_page,
         held |-> Len(all_plans)])
  /\ plan_pc' = "await"
  /\ UNCHANGED << plan_source, plan_ids, batch_size, plan_limit, batch_idx,
                  batch, plan_after, plan_page, all_plans, plan_outcomes,
                  plan_failures, plans_result >>
  /\ UNCHANGED nonPlanVars

\* a failure that is retried: sleep, then `continue`
PlanRetry(kind) ==
  /\ plan_pc = "await"
  /\ plan_failures < MaxPlanFailures
  /\ plan_failures' = plan_failures + 1
  /\ plan_outcomes' = Append(plan_outcomes, kind)
  /\ plan_pc' = "loop"
  /\ UNCHANGED << plan_source, plan_ids, batch_size, plan_limit, batch_idx,
                  batch, plan_after, plan_page, all_plans, plan_requests,
                  plans_result >>
  /\ UNCHANGED nonPlanVars

\* mutant: the failure ends the whole resolution, not only the batch
PlanBreak_EndsAll(kind) ==
  /\ plan_pc = "await"
  /\ plan_failures < MaxPlanFailures
  /\ plan_failures' = plan_failures + 1
  /\ plan_outcomes' = Append(plan_outcomes, kind)
  /\ plan_pc' = "return"
  /\ UNCHANGED << plan_source, plan_ids, batch_size, plan_limit, batch_idx,
                  batch, plan_after, plan_page, all_plans, plan_requests,
                  plans_result >>
  /\ UNCHANGED nonPlanVars

\* `break` out of the page loop, then the for loop steps to the next batch
PlanBreak(kind) ==
  /\ plan_pc = "await"
  /\ plan_failures < MaxPlanFailures
  /\ plan_failures' = plan_failures + 1
  /\ plan_outcomes' = Append(plan_outcomes, kind)
  /\ batch_idx' = batch_idx + batch_size
  /\ plan_pc' = "batch"
  /\ UNCHANGED << plan_source, plan_ids, batch_size, plan_limit, batch,
                  plan_after, plan_page, all_plans, plan_requests,
                  plans_result >>
  /\ UNCHANGED nonPlanVars

\* status 429
PlanRespRateLimit == PlanRetry("rate_limit")

\* requests.exceptions.Timeout
PlanRespTimeout == PlanRetry("timeout")

\* requests.exceptions.ConnectionError, caught as a RequestException
PlanRespConnectionError == PlanBreak("connection_error")

\* any other requests.exceptions.RequestException
PlanRespRequestException == PlanBreak("request_exception")

\* status other than 200 and 429
PlanRespHttpError == PlanBreak("http_error")

\* 200 with an 'errors' member
PlanRespGraphQLErrors == PlanBreak("graphql_errors")

\* an exception that is not a RequestException: no handler, it leaves the function
PlanRespUnexpected ==
  /\ plan_pc = "await"
  /\ plan_failures < MaxPlanFailures
  /\ plan_failures' = plan_failures + 1
  /\ plan_outcomes' = Append(plan_outcomes, "unexpected")
  /\ plan_pc' = "raised"
  /\ UNCHANGED << plan_source, plan_ids, batch_size, plan_limit, batch_idx,
                  batch, plan_after, plan_page, all_plans, plan_requests,
                  plans_result >>
  /\ UNCHANGED nonPlanVars

\* mutant: a full page, too, is taken as the batch's last one
PlanRespSuccess_FullPageEnds ==
  /\ plan_pc = "await"
  /\ LET plans == PlanPage(plan_source, batch, plan_after, plan_limit)
     IN IF plans = << >>
        THEN /\ plan_outcomes' = Append(plan_outcomes, "empty")
             /\ batch_idx' = batch_idx + batch_size
             /\ plan_pc' = "batch"
             /\ UNCHANGED << all_plans, plan_after, plan_page >>
        ELSE /\ plan_outcomes' = Append(plan_outcomes, "page")
             /\ all_plans' = all_plans \o plans
             /\ batch_idx' = batch_idx + batch_size
             /\ plan_pc' = "batch"
             /\ UNCHANGED << plan_after, plan_page >>
  /\ UNCHANGED << plan_source, plan_ids, batch_size, plan_limit, batch,
                  plan_requests, plan_failures, plans_result >>
  /\ UNCHANGED nonPlanVars

\* 200, no errors: the page the source holds for this batch beyond the cursor
PlanRespSuccess ==
  /\ plan_pc = "await"
  /\ LET plans == PlanPage(plan_source, batch, plan_after, plan_limit)
     IN IF plans = << >>
        THEN /\ plan_outcomes' = Append(plan_outcomes, "empty")
             /\ batch_idx' = batch_idx + batch_size
             /\ plan_pc' = "batch"
             /\ UNCHANGED << all_plans, plan_after, plan_page >>
        ELSE /\ plan_outcomes' = Append(plan_outcomes, "page")
             /\ all_plans' = all_plans \o plans
             /\ IF Len(plans) < plan_limit
                THEN /\ batch_idx' = batch_idx + batch_size
                     /\ plan_pc' = "batch"
                     /\ UNCHANGED << plan_after, plan_page >>
                ELSE /\ plan_after' = Some(Last(plans).id)
                     /\ plan_page' = plan_page + 1
                     /\ plan_pc' = "loop"
                     /\ UNCHANGED batch_idx
  /\ UNCHANGED << plan_source, plan_ids, batch_size, plan_limit, batch,
                  plan_requests, plan_failures, plans_result >>
  /\ UNCHANGED nonPlanVars

\* `return {plan['id']: plan for plan in all_plans}`
PlanReturn ==
  /\ plan_pc = "return"
  /\ plans_result' = DictOf(all_plans)
  /\ plan_pc' = "done"
  /\ UNCHANGED << plan_source, plan_ids, batch_size, plan_limit, batch_idx,
                  batch, plan_after, plan_page, all_plans, plan_requests,
                  plan_outcomes, plan_failures >>
  /\ UNCHANGED nonPlanVars

NextPlans ==
  \/ NextBatch
  \/ BatchesDone
  \/ PlanSendRequest
  \/ PlanRespRateLimit
  \/ PlanRespTimeout
  \/ PlanRespConnectionError
  \/ PlanRespRequestException
  \/ PlanRespHttpError
  \/ PlanRespGraphQLErrors
  \/ PlanRespUnexpected
  \/ PlanRespSuccess
  \/ PlanReturn

InitP == InitPlans /\ FetchIdle /\ TransIdle /\ MainIdle

SpecPlans == InitP /\ [][NextPlans]_vars

\* ------------------------------------------------------------- parse_number
\* An incoming amount: absent (None), a number, or a string of characters.
NoneVal == [t |-> "none", v |-> 0, s |-> << >>]
Num(n) == [t |-> "num", v |-> n, s |-> << >>]
Str(cs) == [t |-> "str", v |-> 0, s |-> cs]

Digits == {"0", "1", "2", "3", "4", "5", "6", "7", "8", "9"}

DigitVal(c) ==
  CASE c = "0" -> 0 [] c = "1" -> 1 [] c = "2" -> 2 [] c = "3" -> 3
    [] c = "4" -> 4 [] c = "5" -> 5 [] c = "6" -> 6 [] c = "7" -> 7
    [] c = "8" -> 8 [] c = "9" -> 9

RECURSIVE StripLeft(_)
StripLeft(cs) ==
  IF cs # << >> /\ Head(cs) = " " THEN StripLeft(Tail(cs)) ELSE cs

RECURSIVE StripRight(_)
StripRight(cs) ==
  IF cs # << >> /\ Last(cs) = " "
  THEN StripRight(SubSeq(cs, 1, Len(cs) - 1)) ELSE cs

\* str.strip()
Strip(cs) == StripRight(StripLeft(cs))

RECURSIVE DigitsValue(_)
DigitsValue(cs) ==
  IF cs = << >> THEN 0
  ELSE DigitsValue(SubSeq(cs, 1, Len(cs) - 1)) * 10 + DigitVal(Last(cs))

AllDigits(cs) == \A i \in 1..Len(cs) : cs[i] \in Digits

\* float(value) on a stripped string over digits, ".", "-", " " and letters
\* with at most two fractional digits: Some(hundredths), or None for ValueError
ParseFloat(cs) ==
  LET neg  == cs # << >> /\ cs[1] = "-"
      body == IF neg THEN Tail(cs) ELSE cs
      dots == {i \in 1..Len(body) : body[i] = "."}
      dot  == IF dots = {} THEN Len(body) + 1
              ELSE CHOOSE i \in dots : \A j \in dots : i <= j
      ip   == SubSeq(body, 1, dot - 1)
      fp   == SubSeq(body, dot + 1, Len(body))
      frac == IF Len(fp) = 0 THEN 0
              ELSE IF Len(fp) = 1 THEN DigitsValue(fp) * 10
              ELSE DigitsValue(SubSeq(fp, 1, 2))
      mag  == DigitsValue(ip) * 100 + frac
  IN IF Cardinality(dots) <= 1 /\ AllDigits(ip) /\ AllDigits(fp)
        /\ Len(ip) + Len(fp) >= 1
     THEN Some(IF neg THEN 0 - mag ELSE mag)
     ELSE None

parse_number(value) ==
  IF value.t = "none" THEN 0
  ELSE IF value.t = "num" THEN value.v
  ELSE LET st == Strip(value.s)
       IN IF st # << >>
          THEN LET f == ParseFloat(st) IN IF f.has THEN f.v ELSE 0
          ELSE 0

\* ------------------------------------------------------- transform inputs
S_1500_00 == << "1", "5", "0", "0", ".", "0", "0" >>
S_600 == << " ", "6", "0", "0", " " >>
S_1000 == << "1", "0", "0", "0" >>
S_junk == << "x" >>

\* values of a contract's contractSum
ContractSums == {NoneVal, Str(<< >>), Str(S_1500_00), Num(160000)}

\* values of a unit's totalSum
UnitSums == {NoneVal, Str(S_600)}

\* plan ids a unit may point at; a key of plans_dict is one main asked for,
\* so never None or 0
PlanKeys == {1, 2}

PlanPool ==
  { [id |-> 1, nameRu |-> "P1", amount |-> Num(60000)],
    [id |-> 2, nameRu |-> "P2", amount |-> Str(S_1000)],
    [id |-> 2, nameRu |-> "P2", amount |-> Str(S_junk)] }

PlanDicts ==
  UNION { {f \in [K -> PlanPool] : \A k \in K : f[k].id = k} :
          K \in SUBSET PlanKeys }

UnitPool ==
  [plnPointId : {None, Some(0)} \cup {Some(k) : k \in PlanKeys},
   totalSum : UnitSums]

UnitSeqs(n) == UNION {[1..k -> UnitPool] : k \in 0..n}

ContractPool(u) ==
  {[contractSum |-> cs, ContractUnits |-> us] :
     cs \in ContractSums, us \in UnitSeqs(u)}

\* the lists of at most n contracts holding at most u units in all
RECURSIVE ContractLists(_, _)
ContractLists(n, u) ==
  {<< >>} \cup
  (IF n = 0 THEN {}
   ELSE UNION {{<< c >> \o rest :
                  rest \in ContractLists(n - 1, u - Len(c.ContractUnits))} :
               c \in ContractPool(u)})

InitTransform ==
  /\ contracts \in ContractLists(MaxContracts, MaxUnits) \ {<< >>}
  /\ plans_dict \in PlanDicts
  /\ mode \in {"summary", "detailed"}
  /\ done_count = 0
  /\ contract_num = 1
  /\ rows = << >>
  /\ stats = [with_plan |-> 0, without_plan |-> 0, total_contracts |-> 0,
              total_positions |-> 0, contracts_without_units |-> 0]
  /\ plan_sum = 0
  /\ contract_sum = 0
  /\ savings = None
  /\ t_pc = "run"

\* `x if x > 0 else None`
PositiveOrNone(x) == IF x > 0 THEN Some(x) ELSE None

\* ------------------------------------------------------- transform_summary
\* mutant: `plan_sum = ...` in place of `plan_sum += ...`
RECURSIVE PlanSumLoop_Assign(_, _, _)
PlanSumLoop_Assign(units, dict, acc) ==
  IF units = << >> THEN acc
  ELSE LET pln_point_id == Head(units).plnPointId
       IN PlanSumLoop_Assign(Tail(units), dict,
            IF Truthy(pln_point_id) /\ pln_point_id.v \in DOMAIN dict
            THEN parse_number(dict[pln_point_id.v].amount)
            ELSE acc)

\* the loop over contract_units adding up plan amounts
RECURSIVE PlanSumLoop(_, _, _)
PlanSumLoop(units, dict, acc) ==
  IF units = << >> THEN acc
  ELSE LET pln_point_id == Head(units).plnPointId
       IN PlanSumLoop(Tail(units), dict,
            IF Truthy(pln_point_id) /\ pln_point_id.v \in DOMAIN dict
            THEN acc + parse_number(dict[pln_point_id.v].amount)
            ELSE acc)

\* mutant: `or` in place of `and`
SummarySavings_Or(ps, cs) == IF ps > 0 \/ cs > 0 THEN Some(ps - cs) ELSE None

\* `plan_sum - contract_sum if (plan_sum > 0 and contract_sum > 0) else None`
SummarySavings(ps, cs) == IF ps > 0 /\ cs > 0 THEN Some(ps - cs) ELSE None

\* one pass of `for i, contract in enumerate(contracts, 1)`
SummaryStep ==
  /\ t_pc = "run"
  /\ mode = "summary"
  /\ done_count < Len(contracts)
  /\ LET i == done_count + 1
         contract == contracts[i]
         ps == PlanSumLoop(contract.ContractUnits, plans_dict, 0)
         cs == parse_number(contract.contractSum)
         sv == SummarySavings(ps, cs)
     IN /\ plan_sum' = ps
        /\ contract_sum' = cs
        /\ savings' = sv
        /\ stats' = IF ps > 0
                    THEN [stats EXCEPT !.with_plan = @ + 1]
                    ELSE [stats EXCEPT !.without_plan = @ + 1]
        /\ rows' = Append(rows,
              [row_type |-> "summary", num |-> Some(i), name |-> "",
               contract_total |-> None,
               plan_sum |-> PositiveOrNone(ps),
               actual_sum |-> PositiveOrNone(cs),
               savings |-> sv])
        /\ done_count' = i
  /\ UNCHANGED << contracts, plans_dict, mode, contract_num, t_pc >>
  /\ UNCHANGED nonTransVars

\* ------------------------------------------------------ transform_detailed
\* `plan_amount - unit_sum if (plan_amount > 0 and unit_sum > 0) else None`
ItemSavings(pa, us) == IF pa > 0 /\ us > 0 THEN Some(pa - us) ELSE None

\* plan_name and plan_amount of a unit
PlanNameOf(unit, dict) ==
  IF Truthy(unit.plnPointId) /\ unit.plnPointId.v \in DOMAIN dict
  THEN dict[unit.plnPointId.v].nameRu ELSE "-"

PlanAmountOf(unit, dict) ==
  IF Truthy(unit.plnPointId) /\ unit.plnPointId.v \in DOMAIN dict
  THEN parse_number(dict[unit.plnPointId.v].amount) ELSE 0

\* the item row built for one unit
ItemRow(unit, dict) ==
  LET plan_amount == PlanAmountOf(unit, dict)
      unit_sum == parse_number(unit.totalSum)
  IN [row_type |-> "item", num |-> None, name |-> PlanNameOf(unit, dict),
      contract_total |-> None,
      plan_sum |-> PositiveOrNone(plan_amount),
      actual_sum |-> PositiveOrNone(unit_sum),
      savings |-> ItemSavings(plan_amount, unit_sum)]

\* the header row of a contract
HeaderRow(contract, n) ==
  [row_type |-> "header", num |-> Some(n), name |-> "",
   contract_total |-> PositiveOrNone(parse_number(contract.contractSum)),
   plan_sum |-> None, actual_sum |-> None, savings |-> None]

\* mutant: the loop stops one unit short
ItemRows_DropLast(units, dict) ==
  [j \in 1..(Len(units) - 1) |-> ItemRow(units[j], dict)]

\* `for unit in contract_units: ... rows.append(item_row)`
ItemRows(units, dict) == [j \in 1..Len(units) |-> ItemRow(units[j], dict)]

\* one pass of `for contract in contracts`
DetailedStep ==
  /\ t_pc = "run"
  /\ mode = "detailed"
  /\ done_count < Len(contracts)
  /\ LET contract == contracts[done_count + 1]
         contract_units == contract.ContractUnits
         n == Len(contract_units)
     IN /\ rows' = Append(rows, HeaderRow(contract, contract_num))
                     \o ItemRows(contract_units, plans_dict)
        /\ stats' = [stats EXCEPT
                       !.total_contracts = @ + 1,
                       !.total_positions = @ + n,
                       !.contracts_without_units =
                          IF n = 0 THEN @ + 1 ELSE @]
        /\ contract_sum' = parse_number(contract.contractSum)
        /\ plan_sum' = IF n = 0 THEN plan_sum
                       ELSE PlanAmountOf(contract_units[n], plans_dict)
        /\ savings' = IF n = 0 THEN savings
                      ELSE ItemRow(contract_units[n], plans_dict).savings
  /\ contract_num' = contract_num + 1
  /\ done_count' = done_count + 1
  /\ UNCHANGED << contracts, plans_dict, mode, t_pc >>
  /\ UNCHANGED nonTransVars

\* `df = pd.DataFrame(rows); return df`
TransformReturn ==
  /\ t_pc = "run"
  /\ done_count = Len(contracts)
  /\ t_pc' = "done"
  /\ UNCHANGED << contracts, plans_dict, mode, done_count, contract_num,
                  rows, stats, plan_sum, contract_sum, savings >>
  /\ UNCHANGED nonTransVars

NextTransform ==
  \/ SummaryStep
  \/ DetailedStep
  \/ TransformReturn

InitT == InitTransform /\ FetchIdle /\ PlansIdle /\ MainIdle

SpecTransform == InitT /\ [][NextTransform]_vars

\* --------------------------------------------------------------------- main
transLocals == << done_count, contract_num, rows, stats, plan_sum,
                  contract_sum, savings >>

InitMain ==
  /\ m_pc = "fetch"
  /\ all_plan_ids = {}
  /\ writes = << >>
  /\ steps = << >>
  /\ exit_code = None
  /\ interrupted = NotInterrupted

\* `contracts = fetch_all_contracts(...)`: whatever list the fetch hands back
MainFetch ==
  /\ m_pc = "fetch"
  /\ \E cs \in ContractLists(MaxContracts, MaxUnits) : contracts' = cs
  /\ steps' = Append(steps, "fetch")
  /\ m_pc' = "cache"
  /\ UNCHANGED << plans_dict, mode, t_pc, transLocals >>
  /\ UNCHANGED << all_plan_ids, writes, exit_code, interrupted >>
  /\ UNCHANGED << fetchVars, planVars >>

\* `with open(CACHE_FILE, 'w') as f: json.dump(contracts, f, ...)`
MainWriteCache ==
  /\ m_pc = "cache"
  /\ writes' = Append(writes, "cache")
  /\ steps' = Append(steps, "cache")
  /\ m_pc' = "check"
  /\ UNCHANGED << all_plan_ids, exit_code, interrupted >>
  /\ UNCHANGED << fetchVars, planVars, transVars >>

\* `if not contracts: return`: main ends, the process with it
MainNoContracts ==
  /\ m_pc = "check"
  /\ contracts = << >>
  /\ m_pc' = "exited"
  /\ exit_code' = Some(0)
  /\ UNCHANGED << all_plan_ids, writes, steps, interrupted >>
  /\ UNCHANGED << fetchVars, planVars, transVars >>

\* the loop collecting every truthy plnPointId into all_plan_ids
MainCollect ==
  /\ m_pc = "check"
  /\ contracts # << >>
  /\ all_plan_ids' =
       {contracts[i].ContractUnits[j].plnPointId.v :
          << i, j >> \in {p \in (1..Len(contracts)) \X (1..MaxUnits) :
             /\ p[2] <= Len(contracts[p[1]].ContractUnits)
             /\ Truthy(contracts[p[1]].ContractUnits[p[2]].plnPointId)}}
  /\ steps' = Append(steps, "collect")
  /\ m_pc' = "plans"
  /\ UNCHANGED << writes, exit_code, interrupted >>
  /\ UNCHANGED << fetchVars, planVars, transVars >>

\* `plans_dict = fetch_plans_by_ids(list(all_plan_ids))`: a table of plans for
\* some or all of the ids asked for
MainFetchPlans ==
  /\ m_pc = "plans"
  /\ all_plan_ids # {}
  /\ \E d \in PlanDicts :
       /\ DOMAIN d \subseteq all_plan_ids
       /\ plans_dict' = d
  /\ steps' = Append(steps, "plans")
  /\ m_pc' = "select"
  /\ UNCHANGED << contracts, mode, t_pc, transLocals >>
  /\ UNCHANGED << all_plan_ids, writes, exit_code, interrupted >>
  /\ UNCHANGED << fetchVars, planVars >>

\* fetch_plans_by_ids lets an exception that is not a RequestException out
MainPlansRaise ==
  /\ m_pc = "plans"
  /\ all_plan_ids # {}
  /\ m_pc' = "failed"
  /\ UNCHANGED << all_plan_ids, writes, steps, exit_code, interrupted >>
  /\ UNCHANGED << fetchVars, planVars, transVars >>

\* `else: plans_dict = {}`
MainNoPlans ==
  /\ m_pc = "plans"
  /\ all_plan_ids = {}
  /\ plans_dict' = << >>
  /\ m_pc' = "select"
  /\ UNCHANGED << contracts, mode, t_pc, transLocals >>
  /\ UNCHANGED << all_plan_ids, writes, steps, exit_code, interrupted >>
  /\ UNCHANGED << fetchVars, planVars >>

\* `mode = select_export_mode()`
MainSelectMode ==
  /\ m_pc = "select"
  /\ mode' \in {"summary", "detailed"}
  /\ steps' = Append(steps, "select")
  /\ m_pc' = "transform"
  /\ UNCHANGED << contracts, plans_dict, t_pc, transLocals >>
  /\ UNCHANGED << all_plan_ids, writes, exit_code, interrupted >>
  /\ UNCHANGED << fetchVars, planVars >>

\* `df = transform_summary(...)` / `df = transform_detailed(...)`: the call
MainTransform ==
  /\ m_pc = "transform"
  /\ t_pc' = "run"
  /\ steps' = Append(steps, "transform")
  /\ m_pc' = "transforming"
  /\ UNCHANGED << contracts, plans_dict, mode, transLocals >>
  /\ UNCHANGED << all_plan_ids, writes, exit_code, interrupted >>
  /\ UNCHANGED << fetchVars, planVars >>

\* `export_to_excel(df, OUTPUT_FILE, mode=mode)` once the transform returned
MainExport ==
  /\ m_pc = "transforming"
  /\ t_pc = "done"
  /\ writes' = Append(writes, "xlsx")
  /\ steps' = Append(steps, "export")
  /\ m_pc' = "report"
  /\ UNCHANGED << all_plan_ids, exit_code, interrupted >>
  /\ UNCHANGED << fetchVars, planVars, transVars >>

\* export_to_excel re-raises (PermissionError: the file is open elsewhere)
MainExportFails ==
  /\ m_pc = "transforming"
  /\ t_pc = "done"
  /\ steps' = Append(steps, "export")
  /\ m_pc' = "failed"
  /\ UNCHANGED << all_plan_ids, writes, exit_code, interrupted >>
  /\ UNCHANGED << fetchVars, planVars, transVars >>

\* the closing prints; main returns and the process ends
MainReport ==
  /\ m_pc = "report"
  /\ m_pc' = "exited"
  /\ exit_code' = Some(0)
  /\ UNCHANGED << all_plan_ids, writes, steps, interrupted >>
  /\ UNCHANGED << fetchVars, planVars, transVars >>

\* the statements inside main's `try`
InTry == {"fetch", "cache", "check", "plans", "select", "transform",
          "transforming", "report"}

\* KeyboardInterrupt raised while a statement of the `try` block runs; a
\* transform under way is unwound
Interrupt ==
  /\ m_pc \in InTry
  /\ interrupted' = [at |-> m_pc, writes |-> Len(writes), steps |-> Len(steps)]
  /\ m_pc' = "interrupted"
  /\ t_pc' = IF t_pc = "run" THEN "unwound" ELSE t_pc
  /\ UNCHANGED << contracts, plans_dict, mode, transLocals >>
  /\ UNCHANGED << all_plan_ids, writes, steps, exit_code >>
  /\ UNCHANGED << fetchVars, planVars >>

\* `except KeyboardInterrupt: print(...); sys.exit(0)`
MainOnInterrupt ==
  /\ m_pc = "interrupted"
  /\ exit_code' = Some(0)
  /\ m_pc' = "exited"
  /\ UNCHANGED << all_plan_ids, writes, steps, interrupted >>
  /\ UNCHANGED << fetchVars, planVars, transVars >>

\* `except Exception as e: ...; sys.exit(1)`
MainOnException ==
  /\ m_pc = "failed"
  /\ exit_code' = Some(1)
  /\ m_pc' = "exited"
  /\ UNCHANGED << all_plan_ids, writes, steps, interrupted >>
  /\ UNCHANGED << fetchVars, planVars, transVars >>

NextMain ==
  \/ MainFetch
  \/ MainWriteCache
  \/ MainNoContracts
  \/ MainCollect
  \/ MainFetchPlans
  \/ MainPlansRaise
  \/ MainNoPlans
  \/ MainSelectMode
  \/ MainTransform
  \/ SummaryStep
  \/ DetailedStep
  \/ TransformReturn
  \/ MainExport
  \/ MainExportFails
  \/ MainReport
  \/ Interrupt
  \/ MainOnInterrupt
  \/ MainOnException

InitM == InitMain /\ FetchIdle /\ PlansIdle /\ TransIdle

SpecMain == InitM /\ [][NextMain]_vars

\* ================================================= claims: fetch_all_contracts
Fatal == {"http_error", "graphql_errors"}

CleanRun == \A i \in 1..Len(outcomes) : outcomes[i] \in {"page", "empty"}

\* number of non-empty pages a source of n records yields at page size p
PagesOf(n, p) == (n + p - 1) \div p

\* C1: with no page cap and every request answered successfully, the fetch
\* returns exactly the source's records in arrival order, having accepted k
\* non-empty pages and issued k+1 requests, the last of which got the empty
\* page; no request is ever issued after an empty page.
C1_PaginationTermination ==
  /\ \A i \in 1..Len(outcomes) : outcomes[i] = "empty" => i = Len(requests)
  /\ (pc = "done" /\ ~Truthy(max_pages) /\ CleanRun) =>
       /\ returned = Flatten(accepted)
       /\ returned = source
       /\ Len(accepted) = PagesOf(Len(source), limit)
       /\ Len(requests) = Len(accepted) + 1
       /\ Last(outcomes) = "empty"

\* pages [1, 1, 1, 0]: three records returned after four requests
C1_Witness ==
  /\ pc = "done" /\ ~Truthy(max_pages) /\ CleanRun
  /\ Len(accepted) = 3 /\ Len(requests) = 4 /\ Len(returned) = 3

\* C2: the first request carries a null cursor and every later one carries the
\* id of the last record of the most recently accepted non-empty page, whatever
\* failures came in between; the cursor holds no other value.
CursorFor(n) == IF n = 0 THEN None ELSE Some(Last(accepted[n]).id)

C2_CursorInvariant ==
  /\ after = CursorFor(Len(accepted))
  /\ \A i \in 1..Len(requests) :
       /\ requests[i].after = CursorFor(requests[i].npages)
       /\ (i = 1 => requests[i].after = None)

\* a request sent after a retried failure that followed an accepted page
C2_Witness ==
  \E i \in 1..Len(outcomes) :
    /\ outcomes[i] \in Transient
    /\ Len(requests) > i
    /\ requests[i + 1].after.has
    /\ requests[i + 1].npages = 2

\* C3: a timeout, a connection failure or a 429 keeps the loop running on the
\* same page: the step that handles it changes neither the cursor, the page
\* counter nor the accumulated list and does not exit, and the step after it
\* re-issues the request with the same variables.
C3_TransientRetriesSamePage ==
  [][ /\ (pc = "await" /\ Len(outcomes') = Len(outcomes) + 1
            /\ Last(outcomes') \in Transient)
        => /\ pc' = "loop"
           /\ after' = after /\ page' = page /\ all_contracts' = all_contracts
           /\ ~CapExceeded'
      /\ (pc = "loop" /\ outcomes # << >> /\ Last(outcomes) \in Transient)
        => /\ pc' = "await"
           /\ Len(requests') = Len(requests) + 1
           /\ Last(requests') = Last(requests) ]_vars

\* two failures in a row on page 2, then the request is issued a third time
C3_Witness ==
  \E i \in 1..Len(outcomes) :
    /\ i + 1 <= Len(outcomes)
    /\ outcomes[i] \in Transient /\ outcomes[i + 1] \in Transient
    /\ outcomes[i] # outcomes[i + 1]
    /\ Len(requests) = i + 2
    /\ requests[i].page = 2 /\ requests[i + 2].page = 2

\* C4: a non-429 error status or an 'errors' payload ends the fetch at once,
\* with no further request, and the function returns normally exactly the
\* records of the pages accepted before it.
C4_PartialResultOnError ==
  /\ \A i \in 1..Len(outcomes) : outcomes[i] \in Fatal => i = Len(requests)
  /\ exit_reason \in Fatal =>
       /\ pc \in {"return", "done"}
       /\ Last(outcomes) = exit_reason
       /\ all_contracts = Flatten(accepted)
       /\ (pc = "done" => returned = Flatten(accepted))

\* an error after two accepted pages: their records are returned
C4_Witness ==
  /\ pc = "done" /\ exit_reason \in Fatal
  /\ Len(accepted) = 2 /\ returned # << >> /\ Len(returned) < Len(source)

\* C5: after an abort on a query error or error status the caller can tell the
\* returned value from the one a normal completion returns with the same
\* accumulated records.
C5_AbortDistinguishable ==
  (pc = "done" /\ exit_reason \in Fatal) =>
     returned # ReturnValue(all_contracts, "empty")

\* C6: with max_pages = m > 0 at most m pages are accepted, no request is
\* issued once m pages are held, the cap exit returns the accumulated records
\* normally, and retried requests do not count toward m.
C6_PageCap ==
  (max_pages.has /\ max_pages.v > 0) =>
     /\ Len(accepted) <= max_pages.v
     /\ Len(all_contracts) <= max_pages.v * limit
     /\ \A i \in 1..Len(requests) : requests[i].npages < max_pages.v
     /\ exit_reason = "cap" => Len(accepted) = max_pages.v
     /\ (pc = "done" /\ exit_reason = "cap") =>
          /\ returned = Flatten(accepted)
          /\ returned = SubSeq(source, 1, Len(returned))

\* the cap ends a fetch that issued more requests than the cap because of retries
C6_Witness ==
  /\ pc = "done" /\ exit_reason = "cap"
  /\ max_pages.has /\ max_pages.v = 2
  /\ Len(requests) > max_pages.v
  /\ Len(returned) < Len(source)

\* ================================================== claims: fetch_plans_by_ids
\* C7: in the plan resolver a connection failure, like a timeout, is retried
\* on the same page and does not end the batch: the step that handles either
\* goes back to the page loop with the batch, cursor and page unchanged.
C7_PlanConnectionErrorRetried ==
  [][ (plan_pc = "await" /\ Len(plan_outcomes') = Len(plan_outcomes) + 1
         /\ Last(plan_outcomes') \in {"timeout", "connection_error"})
      => /\ plan_pc' = "loop"
         /\ batch_idx' = batch_idx /\ batch' = batch
         /\ plan_after' = plan_after /\ plan_page' = plan_page ]_vars

PlansClean ==
  \A i \in 1..Len(plan_outcomes) : plan_outcomes[i] \in {"page", "empty"}

\* the entities the source holds for the requested identifiers, keyed by id
SourceTable ==
  [k \in {plan_source[i].id : i \in 1..Len(plan_source)}
           \cap {plan_ids[j] : j \in 1..Len(plan_ids)} |->
     plan_source[CHOOSE i \in 1..Len(plan_source) : plan_source[i].id = k]]

RECURSIVE ClaimedPlannedSum(_, _)
ClaimedPlannedSum(units, n) ==
  IF n = 0 THEN 0
  ELSE ClaimedPlannedSum(units, n - 1) +
       (IF units[n].plnPointId.has /\ units[n].plnPointId.v \in DOMAIN plans_dict
        THEN parse_number(plans_dict[units[n].plnPointId.v].amount)
        ELSE 0)

PlannedOf(contract) ==
  ClaimedPlannedSum(contract.ContractUnits, Len(contract.ContractUnits))

\* C9: in summary mode the planned sum computed for every contract is the sum
\* over its line items of the table's amount for each item whose planPointId
\* is present and resolves (absent or unresolved items add 0, a plan
\* referenced twice is added twice), and the row carries that sum.
C9_SummaryPlannedSum ==
  mode = "summary" =>
    /\ Len(rows) = done_count
    /\ done_count >= 1 => plan_sum = PlannedOf(contracts[done_count])
    /\ \A i \in 1..Len(rows) :
         rows[i].plan_sum = (IF PlannedOf(contracts[i]) > 0
                             THEN Some(PlannedOf(contracts[i])) ELSE None)

\* contractSum "1500.00" with items on plans of 600 and 1000:
\* planned 1600, actual 1500, variance 100
C9_Witness ==
  /\ mode = "summary" /\ done_count >= 1
  /\ contracts[done_count].contractSum = Str(S_1500_00)
  /\ Len(contracts[done_count].ContractUnits) = 2
  /\ plan_sum = 160000 /\ contract_sum = 150000
  /\ rows[done_count].plan_sum = Some(160000)
  /\ rows[done_count].actual_sum = Some(150000)
  /\ rows[done_count].savings = Some(10000)

\* variance `var` of operands planned and actual: present iff both are
\* strictly positive, then their difference, else None
VarianceRule(planned, actual, var) ==
  /\ var.has <=> (planned > 0 /\ actual > 0)
  /\ var.has => var.v = planned - actual
  /\ ~var.has => var = None

\* the same on an emitted row, whose amount cells are present iff positive
RowRule(r) ==
  /\ r.plan_sum.has => r.plan_sum.v > 0
  /\ r.actual_sum.has => r.actual_sum.v > 0
  /\ r.savings.has <=> (r.plan_sum.has /\ r.actual_sum.has)
  /\ r.savings.has => r.savings.v = r.plan_sum.v - r.actual_sum.v
  /\ ~r.savings.has => r.savings = None

\* C10: on every summary row and every detail item row the variance is present
\* iff planned and actual are both strictly positive and then equals planned
\* minus actual (0 when they are equal); otherwise it is None, never 0.
C10_VariancePresence ==
  /\ \A i \in 1..Len(rows) :
       rows[i].row_type \in {"summary", "item"} => RowRule(rows[i])
  /\ (mode = "summary" /\ done_count >= 1) =>
       /\ contract_sum = parse_number(contracts[done_count].contractSum)
       /\ VarianceRule(PlannedOf(contracts[done_count]), contract_sum,
                       rows[done_count].savings)
  /\ (mode = "detailed" /\ done_count >= 1
        /\ contracts[done_count].ContractUnits # << >>) =>
       LET unit == Last(contracts[done_count].ContractUnits)
       IN /\ Last(rows).row_type = "item"
          /\ VarianceRule(PlannedOf([ContractUnits |-> << unit >>]),
                          parse_number(unit.totalSum), Last(rows).savings)

\* detail mode: one item with plan 600 against total 600 (variance 0, present)
\* next to one with a plan amount but no total (variance absent)
C10_Witness ==
  /\ mode = "detailed"
  /\ \E i, j \in 1..Len(rows) :
       /\ rows[i].row_type = "item" /\ rows[j].row_type = "item"
       /\ rows[i].plan_sum = Some(60000) /\ rows[i].actual_sum = Some(60000)
       /\ rows[i].savings = Some(0)
       /\ rows[j].plan_sum.has /\ ~rows[j].actual_sum.has
       /\ rows[j].savings = None

\* line items held by the first k contracts
RECURSIVE UnitsBefore(_)
UnitsBefore(k) ==
  IF k = 0 THEN 0 ELSE UnitsBefore(k - 1) + Len(contracts[k].ContractUnits)

\* where the header row of contract i stands
HeaderAt(i) == (i - 1) + UnitsBefore(i - 1) + 1

\* C11: in detail mode the rows emitted so far are, for each contract gone
\* through and in input order, one header row (numbered by the contract's
\* position, carrying its total) followed at once by one item row per line
\* item in line-item order; a contract without line items gives its header
\* alone, so there are (contracts + line items) rows.
C11_DetailRowCount ==
  mode = "detailed" =>
    /\ Len(rows) = done_count + UnitsBefore(done_count)
    /\ \A i \in 1..done_count :
         LET units == contracts[i].ContractUnits
             h == HeaderAt(i)
         IN /\ rows[h].row_type = "header"
            /\ rows[h].num = Some(i)
            /\ rows[h].contract_total =
                 (IF parse_number(contracts[i].contractSum) > 0
                  THEN Some(parse_number(contracts[i].contractSum)) ELSE None)
            /\ \A j \in 1..Len(units) :
                 /\ rows[h + j].row_type = "item"
                 /\ rows[h + j].actual_sum =
                      (IF parse_number(units[j].totalSum) > 0
                       THEN Some(parse_number(units[j].totalSum)) ELSE None)
                 /\ rows[h + j].name # "-" <=>
                      (units[j].plnPointId.has
                         /\ units[j].plnPointId.v \in DOMAIN plans_dict)

\* a contract without line items, then one with two different ones: 4 rows
C11_Witness ==
  /\ mode = "detailed" /\ t_pc = "done"
  /\ Len(contracts) = 2
  /\ contracts[1].ContractUnits = << >>
  /\ Len(contracts[2].ContractUnits) = 2
  /\ contracts[2].ContractUnits[1] # contracts[2].ContractUnits[2]
  /\ contracts[1].contractSum # contracts[2].contractSum
  /\ Len(rows) = 4

\* ------------------------------------------- claims: batch failure isolation
\* the offsets at which the batches of plan_ids start
BatchStarts == {b \in 0..(Len(plan_ids) - 1) : b % batch_size = 0}

BatchIds(b) == SubSeq(plan_ids, b + 1, Min(b + batch_size, Len(plan_ids)))

\* requests of the batch starting at b that were answered as `kinds`
Answered(b, kinds) ==
  {i \in 1..Len(plan_outcomes) :
     plan_requests[i].batch_idx = b /\ plan_outcomes[i] \in kinds}

\* what the batch starting at b is due to contribute: all the source holds for
\* its ids, or, when one of its requests failed unrecoverably, the full pages
\* received before that request
BatchEntries(b) ==
  IF Answered(b, Fatal) = {}
  THEN PlanPage(plan_source, BatchIds(b), None, Len(plan_source))
  ELSE PlanPage(plan_source, BatchIds(b), None,
                Cardinality(Answered(b, {"page"})) * plan_limit)

IsolatedTable ==
  LET held == UNION {{BatchEntries(b)[i] : i \in 1..Len(BatchEntries(b))} :
                     b \in BatchStarts}
  IN [k \in {e.id : e \in held} |-> CHOOSE e \in held : e.id = k]

\* every failure of the run is an unrecoverable one or one that was retried
OnlyFatalOrRetried ==
  \A i \in 1..Len(plan_outcomes) :
    plan_outcomes[i] \in {"page", "empty", "timeout", "rate_limit"} \cup Fatal

\* C13: an error status other than 429 or an 'errors' payload on a request of
\* one batch ends only that batch: it is the batch's last request, every later
\* request belongs to a later batch, by the end of the resolution every batch
\* has had a request, and the returned table holds the pages the failed batch
\* had received together with the entries of all the other batches.
C13_BatchFailureIsolation ==
  /\ \A i \in 1..Len(plan_outcomes) :
       plan_outcomes[i] \in Fatal =>
         /\ ~(plan_pc = "loop" /\ batch_idx = plan_requests[i].batch_idx)
         /\ \A j \in (i + 1)..Len(plan_requests) :
              plan_requests[j].batch_idx > plan_requests[i].batch_idx
  /\ plan_pc \in {"return", "done"} =>
       \A b \in BatchStarts :
         \E i \in 1..Len(plan_requests) : plan_requests[i].batch_idx = b
  /\ (plan_pc = "done" /\ OnlyFatalOrRetried) => plans_result = IsolatedTable

\* the first batch fails on its second page, the second batch is still asked:
\* the table holds the first batch's first page and the second batch's entry
C13_Witness ==
  /\ plan_pc = "done" /\ OnlyFatalOrRetried
  /\ \E i \in 1..Len(plan_outcomes) :
       /\ plan_outcomes[i] \in Fatal
       /\ plan_requests[i].batch_idx = 0 /\ plan_requests[i].page = 2
       /\ \E j \in (i + 1)..Len(plan_outcomes) : plan_outcomes[j] = "page"
  /\ Cardinality(DOMAIN plans_result) = 2
  /\ Len(plan_source) = 3

\* ============================================================ claims: main
\* C12: once the pipeline is interrupted, at whatever stage, no further
\* pipeline step is carried out and nothing more is written, and the process
\* ends with a non-zero exit status.
C12_InterruptExitsNonZero ==
  interrupted.at # "none" =>
    /\ Len(steps) = interrupted.steps
    /\ Len(writes) = interrupted.writes
    /\ m_pc \in {"interrupted", "exited"}
    /\ m_pc = "exited" => (exit_code.has /\ exit_code.v # 0)

====
